---- MODULE Spec2Model ----
(***************************************************************************)
(* Model of src/app.py (VANTAGE PROTOCOL dashboard): one Streamlit script  *)
(* that is re-executed top to bottom on every page run.  Strings are       *)
(* sequences of one-character strings, so that substring tests and splits  *)
(* are computed as Python computes them.  Data frames are records          *)
(* [cols, rows]; amounts are exact integers.                               *)
(***************************************************************************)
EXTENDS Integers, Sequences, FiniteSets, TLC

(***************************************************************************)
(* Bounds of the model.                                                    *)
(***************************************************************************)
MaxLines == 2
MaxTableRows == 1
MaxAggRows == 3
MaxChartRows == 6
MaxPieRows == 6

(***************************************************************************)
(* Program constants.                                                      *)
(***************************************************************************)
EvidenceWindow == 25
TopK == 4
MaxWidth == 100

(***************************************************************************)
(* Python str operations on character sequences.                           *)
(***************************************************************************)
\* pat in s
Contains(s, pat) ==
  \E i \in 1..(Len(s) - Len(pat) + 1) : SubSeq(s, i, i + Len(pat) - 1) = pat

FirstMatch(s, pat) ==
  CHOOSE i \in 1..(Len(s) - Len(pat) + 1) :
    /\ SubSeq(s, i, i + Len(pat) - 1) = pat
    /\ \A j \in 1..(i - 1) : SubSeq(s, j, j + Len(pat) - 1) # pat

RECURSIVE Split(_, _)
\* s.split(sep): leftmost non-overlapping matches; always at least one part
Split(s, sep) ==
  IF ~Contains(s, sep) THEN <<s>>
  ELSE LET i == FirstMatch(s, sep)
       IN <<SubSeq(s, 1, i - 1)>> \o Split(SubSeq(s, i + Len(sep), Len(s)), sep)

RECURSIVE Join(_, _)
Join(lines, sep) ==
  IF Len(lines) = 0 THEN <<>>
  ELSE IF Len(lines) = 1 THEN lines[1]
  ELSE lines[1] \o sep \o Join(Tail(lines), sep)

NL == <<"\n">>
SEP == <<":", ":">>
ERROR == <<"E", "R", "R", "O", "R">>
OUTPUT == <<"o", "u", "t", "p", "u", "t">>
TEMPLATE == <<"t", "e", "m", "p", "l", "a", "t", "e">>

\* "// ERROR: GROQ CLIENT NOT INITIALIZED"
NotInitialized ==
  <<"/", "/", " ">> \o ERROR \o <<":", " ", "G", "R", "O", "Q", " ">>
  \o <<"C", "L", "I", "E", "N", "T", " ", "N", "O", "T", " ">>
  \o <<"I", "N", "I", "T", "I", "A", "L", "I", "Z", "E", "D">>

\* "// API ERROR: "
ApiErrorPrefix ==
  <<"/", "/", " ", "A", "P", "I", " ">> \o ERROR \o <<":", " ">>

\* f"// API ERROR: {str(e)}"
ApiErrorLine(msg) == ApiErrorPrefix \o msg

(***************************************************************************)
(* Values of the ledger.                                                   *)
(***************************************************************************)
None == "None"
VendorRank == [v \in {"A", "B", "C", "D", "E", "F"} |->
                 CASE v = "A" -> 1 [] v = "B" -> 2 [] v = "C" -> 3
                   [] v = "D" -> 4 [] v = "E" -> 5 [] v = "F" -> 6]

Num(n) == [t |-> "num", v |-> n]
NaN == [t |-> "nan", v |-> 0]
Text == [t |-> "str", v |-> 0]

AllCols == {"invoice_id", "invoice_date", "vendor_name", "total_amount",
            "risk_score", "description", "risk_flags"}

Row(id, vendor, amount, risk) ==
  [invoice_id |-> id, vendor_name |-> vendor, total_amount |-> amount,
   risk_score |-> risk]

\* pd.DataFrame(r.data): a list of no records has no rows and no columns
Frame(cols, rows) == [cols |-> IF rows = <<>> THEN {} ELSE cols, rows |-> rows]
EmptyFrame == Frame({}, <<>>)
IsEmpty(frame) == Len(frame.rows) = 0 \/ frame.cols = {}

RECURSIVE SumSeq(_)
SumSeq(s) == IF s = <<>> THEN 0 ELSE s[1] + SumSeq(Tail(s))

RECURSIVE SelectRows(_, _)
SelectRows(rows, v) ==
  IF rows = <<>> THEN <<>>
  ELSE IF rows[1].vendor_name = v THEN <<rows[1]>> \o SelectRows(Tail(rows), v)
  ELSE SelectRows(Tail(rows), v)

\* pd.to_numeric(col, errors='coerce').fillna(0)
ToNumericFill0(x) == IF x.t = "num" THEN x ELSE Num(0)

(***************************************************************************)
(* Sorting.                                                                *)
(***************************************************************************)
\* the sort keys of the script's three sort_values calls: does a go strictly
\* before b in descending order
Before(by, a, b) ==
  CASE by = "spend_count" ->
         \/ a.total_spend > b.total_spend
         \/ a.total_spend = b.total_spend /\ a.txn_count > b.txn_count
    [] by = "amount" -> a.total_amount > b.total_amount
    [] by = "risk" -> a.risk_score.v > b.risk_score.v

RECURSIVE InsertDesc(_, _, _)
\* x goes after every element it does not strictly precede
InsertDesc(sorted, x, by) ==
  IF sorted = <<>> THEN <<x>>
  ELSE IF Before(by, x, sorted[1]) THEN <<x>> \o sorted
  ELSE <<sorted[1]>> \o InsertDesc(Tail(sorted), x, by)

RECURSIVE StableSort(_, _)
StableSort(s, by) ==
  IF s = <<>> THEN <<>>
  ELSE InsertDesc(StableSort(SubSeq(s, 1, Len(s) - 1), by), s[Len(s)], by)

Reverse(s) == [i \in 1..Len(s) |-> s[Len(s) + 1 - i]]

\* numpy's default quicksort is not stable: the order of equal keys is fixed by
\* the build, so it is a parameter ("keep": as a stable sort; "reverse")
UnstableSort(s, by, ties) ==
  IF ties = "keep" THEN StableSort(s, by) ELSE StableSort(Reverse(s), by)

HeadN(s, n) == SubSeq(s, 1, IF Len(s) < n THEN Len(s) ELSE n)

(***************************************************************************)
(* groupby('vendor_name'): the keys are the distinct non-null vendor       *)
(* names, in sorted order.                                                 *)
(***************************************************************************)
RECURSIVE SortedNames(_)
SortedNames(S) ==
  IF S = {} THEN <<>>
  ELSE LET m == CHOOSE v \in S : \A w \in S : VendorRank[v] <= VendorRank[w]
       IN <<m>> \o SortedNames(S \ {m})

RECURSIVE FirstSeen(_, _)
FirstSeen(rows, seen) ==
  IF rows = <<>> THEN <<>>
  ELSE IF rows[1].vendor_name \in seen \cup {None} THEN FirstSeen(Tail(rows), seen)
  ELSE <<rows[1].vendor_name>> \o FirstSeen(Tail(rows), seen \cup {rows[1].vendor_name})

\* groupby(..., sort=False): the keys in order of first appearance
GroupKeysAppearance(frame) == FirstSeen(frame.rows, {})

GroupKeys(frame) ==
  SortedNames({frame.rows[i].vendor_name : i \in 1..Len(frame.rows)} \ {None})

SumAmount(rows) == SumSeq([i \in 1..Len(rows) |-> rows[i].total_amount.v])
\* 'count' counts the non-null values of the column
CountNonNull(rows) == Cardinality({i \in 1..Len(rows) : rows[i].invoice_id # None})

\* stats = full_df.groupby('vendor_name').agg(total_spend=..., txn_count=...)
GroupByAgg(frame) ==
  LET keys == GroupKeys(frame)
  IN [k \in 1..Len(keys) |->
        LET g == SelectRows(frame.rows, keys[k])
        IN [vendor_name |-> keys[k], total_spend |-> SumAmount(g),
            txn_count |-> CountNonNull(g)]]

AggRaises(frame) ==
  ~({"vendor_name", "total_amount", "invoice_id"} \subseteq frame.cols)

\* stats.sort_values(['total_spend', 'txn_count'], ascending=False).head(25)
Targets(st) == HeadN(StableSort(st, "spend_count"), EvidenceWindow)

\* f"{x:,.0f}" of a quotient: round half to even
RoundDiv(a, b) ==
  LET q == a \div b
      r == a % b
  IN IF 2 * r < b THEN q
     ELSE IF 2 * r > b THEN q + 1
     ELSE IF q % 2 = 0 THEN q ELSE q + 1

\* the fields of one evidence line, as formatted at line 190
EvidenceLines(tg) ==
  [i \in 1..Len(tg) |->
     [vendor |-> tg[i].vendor_name, total |-> tg[i].total_spend,
      count |-> tg[i].txn_count,
      avg |-> IF tg[i].txn_count > 0
              THEN RoundDiv(tg[i].total_spend, tg[i].txn_count) ELSE 0]]

(***************************************************************************)
(* The donut chart's data.                                                 *)
(***************************************************************************)
\* df.groupby('vendor_name')['total_amount'].sum().reset_index()
GroupBySum(frame) ==
  LET keys == GroupKeys(frame)
  IN [k \in 1..Len(keys) |->
        [vendor_name |-> keys[k],
         total_amount |-> SumAmount(SelectRows(frame.rows, keys[k]))]]

\* .sort_values('total_amount', ascending=False)
PieRanking(frame, ties) == UnstableSort(GroupBySum(frame), "amount", ties)

PieTotals(p) == SumSeq([i \in 1..Len(p) |-> p[i].total_amount])

\* the tail taken one row too late: pie_data.iloc[5:]
CollapseSkipFifth(ranked) ==
  IF Len(ranked) > TopK
  THEN HeadN(ranked, TopK)
       \o <<[vendor_name |-> "Others",
             total_amount |-> PieTotals(SubSeq(ranked, TopK + 2, Len(ranked)))]>>
  ELSE ranked

\* if len(pie_data) > 4: top_4 + one 'Others' row summing pie_data.iloc[4:]
Collapse(ranked) ==
  IF Len(ranked) > TopK
  THEN HeadN(ranked, TopK)
       \o <<[vendor_name |-> "Others",
             total_amount |-> PieTotals(SubSeq(ranked, TopK + 1, Len(ranked)))]>>
  ELSE ranked

PieRaises(frame) == ~({"vendor_name", "total_amount"} \subseteq frame.cols)

(***************************************************************************)
(* State.  secrets_ok, groq_ok, tie_order and table are the deployment:    *)
(* the secrets file, the numpy build and the audit_ledger table.  cache is *)
(* st.cache_data's entry for load_data, session_state is Streamlit's       *)
(* per-session store; the rest are the script's globals and locals during  *)
(* one page run, view is what that run has put on the page and ran the     *)
(* stages it went through.                                                 *)
(***************************************************************************)
VARIABLES secrets_ok, groq_ok, tie_order, table, cache, session_state,
          pc, pressed, groq_client, df, stats, targets, prompt, api,
          findings, pie_ranked, pie_data, view, status, ran

envVars == <<secrets_ok, groq_ok, tie_order, table>>
aggVars == <<stats, targets, prompt>>
pieVars == <<pie_ranked, pie_data>>
vars == <<secrets_ok, groq_ok, tie_order, table, cache, session_state,
          pc, pressed, groq_client, df, stats, targets, prompt, api,
          findings, pie_ranked, pie_data, view, status, ran>>

NoState == [has |-> FALSE, scan_results |-> <<>>]
NoCache == [valid |-> FALSE, df |-> EmptyFrame]

(***************************************************************************)
(* The aggregation pipeline on its own: a cleaned frame is ranked for the  *)
(* annotator and for the chart, and the store may hand the same rows back  *)
(* in another order (the query has no ORDER BY).                           *)
(***************************************************************************)
RECURSIVE SeqsUpTo(_, _)
SeqsUpTo(S, n) ==
  IF n = 0 THEN {<<>>}
  ELSE LET shorter == SeqsUpTo(S, n - 1)
       IN shorter \cup {Append(s, x) : s \in {t \in shorter : Len(t) = n - 1}, x \in S}

\* rows with a missing vendor_name or invoice_id
AggRows ==
  {Row(id, v, Num(a), Num(0)) : id \in {"i1", None}, v \in {"A", "B", None}, a \in {1, 2}}

\* rows of five vendors, two of which can tie on spend with different counts
ChartRows ==
  {Row("i1", v, Num(1), Num(0)) : v \in {"B", "C", "D", "E"}}
  \cup {Row("i1", "A", Num(2), Num(0))}

\* rows of six vendors, so that the chart's tail can hold two of them
PieRows == {Row("i1", v, Num(a), Num(0)) : v \in DOMAIN VendorRank, a \in {1, 2}}

RowKey(r) == 2 * VendorRank[r.vendor_name] + r.total_amount.v

RECURSIVE LedgersUpTo(_, _)
\* the ledgers of at most n rows, each written down once (in RowKey order)
LedgersUpTo(S, n) ==
  IF n = 0 THEN {<<>>}
  ELSE LET shorter == LedgersUpTo(S, n - 1)
           longest == {t \in shorter : Len(t) = n - 1}
       IN shorter \cup
          {Append(p[1], p[2]) :
             p \in {q \in longest \X S :
                      q[1] = <<>> \/ RowKey(q[1][Len(q[1])]) <= RowKey(q[2])}}

PipelineInit(rowsets) ==
  /\ df \in {Frame(AllCols, rows) : rows \in rowsets}
  /\ tie_order \in {"keep", "reverse"}
  /\ secrets_ok = TRUE /\ groq_ok = TRUE /\ table = EmptyFrame
  /\ cache = NoCache /\ session_state = NoState
  /\ pc = "pipeline" /\ pressed = FALSE /\ groq_client = "client"
  /\ stats = <<>> /\ targets = <<>> /\ prompt = <<>> /\ api = "none"
  /\ findings = <<>> /\ pie_ranked = <<>> /\ pie_data = <<>>
  /\ view = <<>> /\ status = "running" /\ ran = {}

\* lines 234-240 and 177-191 on the frame at hand
Rank ==
  /\ pc = "pipeline"
  /\ "rank" \notin ran
  /\ ~PieRaises(df) /\ ~AggRaises(df)
  /\ pie_ranked' = PieRanking(df, tie_order)
  /\ pie_data' = Collapse(pie_ranked')
  /\ stats' = GroupByAgg(df)
  /\ targets' = Targets(stats')
  /\ prompt' = EvidenceLines(targets')
  /\ ran' = ran \cup {"rank"}
  /\ UNCHANGED <<envVars, cache, session_state, pc, pressed, groq_client, df,
                 api, findings, view, status>>

Swap(s, i) ==
  [k \in 1..Len(s) |-> IF k = i THEN s[i + 1] ELSE IF k = i + 1 THEN s[i] ELSE s[k]]

\* the same rows, delivered in another order
Reorder ==
  /\ pc = "pipeline"
  /\ "rank" \in ran
  /\ \E i \in 1..(Len(df.rows) - 1) :
       /\ df.rows[i] # df.rows[i + 1]
       /\ df' = [df EXCEPT !.rows = Swap(df.rows, i)]
  /\ ran' = ran \cup {"reorder"}
  /\ UNCHANGED <<envVars, cache, session_state, pc, pressed, groq_client,
                 aggVars, api, findings, pieVars, view, status>>

PipelineNext == Rank \/ Reorder

AggSpec == PipelineInit(SeqsUpTo(AggRows, MaxAggRows)) /\ [][PipelineNext]_vars
ChartSpec == PipelineInit(SeqsUpTo(ChartRows, MaxChartRows)) /\ [][PipelineNext]_vars
PieSpec == PipelineInit(LedgersUpTo(PieRows, MaxPieRows)) /\ [][Rank]_vars

(***************************************************************************)
(* The page.  What the deployment can hold and what the two services can   *)
(* answer.                                                                 *)
(***************************************************************************)
TableRows == {Row("i1", "A", Num(5), Num(9)), Row(None, None, Text, NaN)}

\* every column, one more, or one of the expected columns missing
ColumnSets ==
  {AllCols, AllCols \cup {"extra"}}
  \cup {AllCols \ {c} : c \in {"risk_score", "invoice_id", "vendor_name",
                               "total_amount", "description"}}

Tables ==
  {Frame(cols, rows) : cols \in ColumnSets, rows \in SeqsUpTo(TableRows, MaxTableRows)}

\* "A :: P", "output :: P", "template"
ResponseLines ==
  {<<"A", " ">> \o SEP \o <<" ", "P">>,
   OUTPUT \o <<" ">> \o SEP \o <<" ", "P">>,
   TEMPLATE}

\* res.choices[0].message.content
Contents == {Join(ls, NL) : ls \in SeqsUpTo(ResponseLines, MaxLines) \ {<<>>}}

\* str(e): "timeout", "[::1] refused"
Messages ==
  {<<"t", "i", "m", "e", "o", "u", "t">>,
   <<"[">> \o SEP \o <<"1", "]", " ", "r", "e", "f", "u", "s", "e", "d">>}

Replies == {[ok |-> TRUE, text |-> c] : c \in Contents}
           \cup {[ok |-> FALSE, text |-> m] : m \in Messages}

\* "SYSTEM LOCK: Credentials Missing in Secrets."
SystemLock == <<"S", "Y", "S", "T", "E", "M", " ", "L", "O", "C", "K">>

Init ==
  /\ secrets_ok \in BOOLEAN /\ groq_ok \in BOOLEAN
  /\ tie_order \in {"keep", "reverse"}
  /\ table \in Tables
  /\ cache = NoCache /\ session_state = NoState
  /\ pc = "connect" /\ pressed = FALSE /\ groq_client = None
  /\ df = EmptyFrame
  /\ stats = <<>> /\ targets = <<>> /\ prompt = <<>> /\ api = "none"
  /\ findings = <<>> /\ pie_ranked = <<>> /\ pie_data = <<>>
  /\ view = <<>> /\ status = "running" /\ ran = {}

\* a failed run leaves the page with the exception and nothing after it
Abort(how) ==
  /\ status' = how
  /\ pc' = "done"

\* the browser asks for the page again; st.button is True only in the run its
\* click started, and only a button that is on the page can be clicked
Rerun ==
  /\ pc = "done"
  /\ \E press \in BOOLEAN :
       /\ press => "button" \in ran
       /\ pressed' = press
  /\ pc' = "connect"
  /\ groq_client' = None /\ df' = EmptyFrame
  /\ stats' = <<>> /\ targets' = <<>> /\ prompt' = <<>> /\ api' = "none"
  /\ findings' = <<>> /\ pie_ranked' = <<>> /\ pie_data' = <<>>
  /\ view' = <<>> /\ status' = "running" /\ ran' = {}
  /\ UNCHANGED <<envVars, cache, session_state>>

\* lines 153-159
Connect ==
  /\ pc = "connect"
  /\ IF ~secrets_ok
     THEN /\ view' = <<[kind |-> "error", text |-> SystemLock]>>
          /\ Abort("stopped")
          /\ UNCHANGED groq_client
     ELSE /\ groq_client' = IF groq_ok THEN "client" ELSE None
          /\ pc' = "load"
          /\ UNCHANGED <<view, status>>
  /\ ran' = ran \cup {"connect"}
  /\ UNCHANGED <<envVars, cache, session_state, pressed, df, aggVars, api,
                 findings, pieVars>>

\* load_data without its try/except: the fetch error reaches the script
LoadDataBodyRaising(ok, tbl) == [raised |-> ~ok, df |-> tbl]

\* the body of load_data: the fetch succeeds or raises
LoadDataBody(ok, tbl) ==
  [raised |-> FALSE, df |-> IF ok THEN tbl ELSE EmptyFrame]

\* df = load_data(), through st.cache_data
LoadData ==
  /\ pc = "load"
  /\ IF cache.valid
     THEN /\ df' = cache.df
          /\ pc' = "branch"
          /\ ran' = ran
          /\ UNCHANGED <<cache, status>>
     ELSE \E ok \in BOOLEAN :
            LET r == LoadDataBody(ok, table)
            IN /\ ran' = ran
               /\ IF r.raised
                  THEN Abort("exception") /\ UNCHANGED <<cache, df>>
                  ELSE /\ cache' = [valid |-> TRUE, df |-> r.df]
                       /\ df' = r.df
                       /\ pc' = "branch"
                       /\ UNCHANGED status
  /\ UNCHANGED <<envVars, session_state, pressed, groq_client, aggVars, api,
                 findings, pieVars, view>>

\* ttl=15 runs out; the entry is only read by the next load_data
CacheExpire ==
  /\ pc = "done"
  /\ cache.valid
  /\ cache' = NoCache
  /\ UNCHANGED <<envVars, session_state, pc, pressed, groq_client, df, aggVars,
                 api, findings, pieVars, view, status, ran>>

\* lines 361-362
Standby ==
  /\ pc = "branch"
  /\ IsEmpty(df)
  /\ view' = Append(view, [kind |-> "standby"])
  /\ Abort("complete")
  /\ ran' = ran \cup {"standby"}
  /\ UNCHANGED <<envVars, cache, session_state, pressed, groq_client, df,
                 aggVars, api, findings, pieVars>>

CleanupRaises(frame) == ~({"total_amount", "risk_score"} \subseteq frame.cols)

\* lines 223-224
Cleanup(frame) ==
  [frame EXCEPT !.rows =
     [i \in 1..Len(frame.rows) |->
        [frame.rows[i] EXCEPT !.total_amount = ToNumericFill0(@),
                              !.risk_score = ToNumericFill0(@)]]]

\* lines 221-269
CleanupChart ==
  /\ pc = "branch"
  /\ ~IsEmpty(df)
  /\ IF CleanupRaises(df) \/ PieRaises(df)
     THEN /\ Abort("exception")
          /\ UNCHANGED <<df, pieVars, view>>
     ELSE /\ df' = Cleanup(df)
          /\ pie_ranked' = PieRanking(df', tie_order)
          /\ pie_data' = Collapse(pie_ranked')
          /\ view' = Append(view, [kind |-> "chart", data |-> pie_data'])
          /\ pc' = "button"
          /\ UNCHANGED status
  /\ ran' = ran \cup {"chart"}
  /\ UNCHANGED <<envVars, cache, session_state, pressed, groq_client, aggVars,
                 api, findings>>

\* line 277
Button ==
  /\ pc = "button"
  /\ pc' = IF pressed THEN "scanning" ELSE "results"
  /\ ran' = ran \cup {"button"}
  /\ UNCHANGED <<envVars, cache, session_state, pressed, groq_client, df,
                 aggVars, api, findings, pieVars, view, status>>

\* the client test after the aggregation instead of before it
Agent3AggregateFirst(client, frame, reply) ==
  IF AggRaises(frame)
  THEN [raised |-> TRUE, findings |-> <<>>, api |-> "none",
        stats |-> <<>>, targets |-> <<>>, prompt |-> <<>>]
  ELSE LET st == GroupByAgg(frame)
           tg == Targets(st)
       IN [raised |-> FALSE,
           findings |-> IF client = None THEN <<NotInitialized>>
                        ELSE IF reply.ok THEN Split(reply.text, NL)
                        ELSE <<ApiErrorLine(reply.text)>>,
           api |-> IF client = None THEN "none"
                   ELSE IF reply.ok THEN "returned" ELSE "raised",
           stats |-> st, targets |-> tg, prompt |-> EvidenceLines(tg)]

\* an offline client answered with no findings at all: return []
Agent3EmptyOffline(client, frame, reply) ==
  IF client = None
  THEN [raised |-> FALSE, findings |-> <<>>, api |-> "none",
        stats |-> <<>>, targets |-> <<>>, prompt |-> <<>>]
  ELSE IF AggRaises(frame)
  THEN [raised |-> TRUE, findings |-> <<>>, api |-> "none",
        stats |-> <<>>, targets |-> <<>>, prompt |-> <<>>]
  ELSE LET st == GroupByAgg(frame)
           tg == Targets(st)
       IN [raised |-> FALSE,
           findings |-> IF reply.ok THEN Split(reply.text, NL)
                        ELSE <<ApiErrorLine(reply.text)>>,
           api |-> IF reply.ok THEN "returned" ELSE "raised",
           stats |-> st, targets |-> tg, prompt |-> EvidenceLines(tg)]

\* execute_agent_3(full_df), lines 173-217, against the reply of the service
Agent3(client, frame, reply) ==
  IF client = None
  THEN [raised |-> FALSE, findings |-> <<NotInitialized>>, api |-> "none",
        stats |-> <<>>, targets |-> <<>>, prompt |-> <<>>]
  ELSE IF AggRaises(frame)
  THEN [raised |-> TRUE, findings |-> <<>>, api |-> "none",
        stats |-> <<>>, targets |-> <<>>, prompt |-> <<>>]
  ELSE LET st == GroupByAgg(frame)
           tg == Targets(st)
       IN [raised |-> FALSE,
           findings |-> IF reply.ok THEN Split(reply.text, NL)
                        ELSE <<ApiErrorLine(reply.text)>>,
           api |-> IF reply.ok THEN "returned" ELSE "raised",
           stats |-> st, targets |-> tg, prompt |-> EvidenceLines(tg)]

\* the new findings appended to the ones already stored
StoreAppend(old, new) == [has |-> TRUE, scan_results |-> old.scan_results \o new]

\* st.session_state['scan_results'] = findings
Store(old, new) == [has |-> TRUE, scan_results |-> new]

\* lines 278-280
ExecuteAgent3 ==
  /\ pc = "scanning"
  /\ \E reply \in Replies :
       LET r == Agent3(groq_client, df, reply)
       IN /\ api' = r.api
          /\ stats' = r.stats /\ targets' = r.targets /\ prompt' = r.prompt
          /\ IF r.raised
             THEN /\ Abort("exception")
                  /\ ran' = ran \cup {"scan_raised"}
                  /\ UNCHANGED <<findings, session_state>>
             ELSE /\ findings' = r.findings
                  /\ session_state' = Store(session_state, r.findings)
                  /\ pc' = "results"
                  /\ ran' = ran \cup {"scan"}
                            \cup (IF session_state.has
                                     /\ session_state.scan_results # r.findings
                                  THEN {"replaced"} ELSE {})
                  /\ UNCHANGED status
  /\ UNCHANGED <<envVars, cache, pressed, groq_client, df, pieVars, view>>

\* width = min(100, len(desc) * 1.5), counted in halves
Width2(desc) ==
  IF 3 * Len(desc) < 2 * MaxWidth THEN 3 * Len(desc) ELSE 2 * MaxWidth

\* one pass of the loop of lines 315-342
RenderFinding(find) ==
  IF Contains(find, SEP)
  THEN LET parts == Split(find, SEP)
           desc == IF Len(parts) > 1 THEN parts[2] ELSE <<>>
       IN <<[kind |-> "row", title |-> parts[1], desc |-> desc,
             width2 |-> Width2(desc)]>>
  ELSE IF Contains(find, ERROR)
  THEN <<[kind |-> "error", text |-> find]>>
  ELSE <<>>

RECURSIVE RenderLoop(_)
RenderLoop(results) ==
  IF results = <<>> THEN <<>>
  ELSE RenderFinding(results[1]) \o RenderLoop(Tail(results))

\* st.session_state.get('scan_results', [])
GetResults(ss) == IF ss.has THEN ss.scan_results ELSE <<>>

\* lines 283-344
RenderResults ==
  /\ pc = "results"
  /\ LET results == GetResults(session_state)
     IN view' = IF results = <<>>
                THEN Append(view, [kind |-> "defaults"])
                ELSE view \o RenderLoop(results)
  /\ pc' = "table"
  /\ ran' = ran \cup {"results"}
  /\ UNCHANGED <<envVars, cache, session_state, pressed, groq_client, df,
                 aggVars, api, findings, pieVars, status>>

LedgerCols == {"invoice_id", "invoice_date", "description", "vendor_name",
               "total_amount", "risk_score"}

\* lines 350-359
LedgerTable ==
  /\ pc = "table"
  /\ IF ~(LedgerCols \subseteq df.cols)
     THEN Abort("exception") /\ UNCHANGED view
     ELSE /\ view' = Append(view, [kind |-> "table",
                                   rows |-> UnstableSort(df.rows, "risk", tie_order)])
          /\ Abort("complete")
  /\ ran' = ran \cup {"table"}
  /\ UNCHANGED <<envVars, cache, session_state, pressed, groq_client, df,
                 aggVars, api, findings, pieVars>>

Next ==
  \/ Rerun \/ Connect \/ LoadData \/ CacheExpire \/ Standby \/ CleanupChart
  \/ Button \/ ExecuteAgent3 \/ RenderResults \/ LedgerTable

Spec == Init /\ [][Next]_vars

(***************************************************************************)
(* Properties.                                                             *)
(***************************************************************************)
StartsWith(s, prefix) ==
  Len(s) >= Len(prefix) /\ SubSeq(s, 1, Len(prefix)) = prefix

\* the two records execute_agent_3 makes up itself
IsSentinel(line) == line = NotInitialized \/ StartsWith(line, ApiErrorPrefix)

IsBoilerplate(line) == Contains(line, OUTPUT) \/ Contains(line, TEMPLATE)

OfKind(items, k) == SelectSeq(items, LAMBDA x : x.kind = k)

Results == GetResults(session_state)

StandbyView == <<[kind |-> "standby"]>>

\* C1: once a scan of the current run has completed, the stored scan_results
\* are exactly the list execute_agent_3 returned to it: nothing of an earlier
\* result set is kept.
C1_ScanReplacesResults ==
  "scan" \in ran => session_state.has /\ session_state.scan_results = findings

\* a scan that started from other, earlier results has completed
C1_ReplacedEarlierResults ==
  /\ "replaced" \in ran
  /\ pc = "done"
  /\ session_state.scan_results = findings

\* C2: a scan with no client, or whose completion call raised, ends with
\* exactly one sentinel entry and no exception out of execute_agent_3, whatever
\* the frame; with no client no completion call is made.
C2_FailureContained ==
  ({"scan", "scan_raised"} \cap ran # {} /\ (groq_client = None \/ api = "raised"))
    => /\ "scan" \in ran
       /\ "scan_raised" \notin ran
       /\ Len(findings) = 1
       /\ IsSentinel(findings[1])
       /\ groq_client = None => api = "none" /\ findings = <<NotInitialized>>

\* the completion call raised during a scan, and the scan completed
C2_CallRaised ==
  /\ "scan" \in ran
  /\ api = "raised"
  /\ findings \in {<<ApiErrorLine(m)>> : m \in Messages}

\* C3: every sentinel error record among the results is put on the page by
\* st.error and by nothing else, and the page's errors are those sentinels only.
C3_SentinelsShownAsErrors ==
  "results" \in ran =>
    /\ OfKind(view, "error")
         = [i \in 1..Len(SelectSeq(Results, IsSentinel)) |->
              [kind |-> "error", text |-> SelectSeq(Results, IsSentinel)[i]]]
    /\ \A i \in 1..Len(Results) :
         IsSentinel(Results[i]) => OfKind(RenderFinding(Results[i]), "row") = <<>>

\* C7: the finding rows on the page are those of the response lines that are
\* not boilerplate; a line with neither the separator nor an error marker puts
\* nothing on the page, and the lines after it are still rendered.
C7_BoilerplateFiltered ==
  "results" \in ran =>
    OfKind(view, "row")
      = OfKind(RenderLoop(SelectSeq(Results, LAMBDA l : ~IsBoilerplate(l))), "row")

\* C8 as stated: whenever the row source fails (credentials that cannot make a
\* client, or a fetch that fails), the run ends in the standby view, complete,
\* never stopped.
C8_AnySourceFailureStandby ==
  (pc = "done" /\ (~secrets_ok \/ (IsEmpty(df) /\ ~IsEmpty(table))))
    => view = StandbyView /\ status = "complete"

\* C8 amended: a fetch that fails inside load_data yields the empty frame, and
\* the run ends as for a table of no rows: the standby view alone, complete, no
\* scan button; credentials that cannot make a client stop the run at the
\* SYSTEM LOCK error instead.
C8_FetchFailureStandby ==
  /\ (pc = "done" /\ secrets_ok /\ IsEmpty(df))
       => view = StandbyView /\ status = "complete" /\ "button" \notin ran
  /\ (pc = "done" /\ ~secrets_ok)
       => /\ view = <<[kind |-> "error", text |-> SystemLock]>>
          /\ status = "stopped"
          /\ "button" \notin ran

\* the store holds rows, the fetch failed, and the run has ended in standby
C8_FailedFetchRun ==
  /\ pc = "done"
  /\ secrets_ok
  /\ ~IsEmpty(table)
  /\ IsEmpty(df)
  /\ view = StandbyView

\* C9: whatever columns a non-empty row set has, no run ends in an unhandled
\* exception, and with no risk_score column the table shows every row's risk
\* as 0.
C9_ColumnsTolerated ==
  /\ status # "exception"
  /\ (pc = "done" /\ ~IsEmpty(table) /\ ~IsEmpty(df) /\ "risk_score" \notin table.cols)
       => /\ OfKind(view, "table") # <<>>
          /\ \A i \in 1..Len(df.rows) : df.rows[i].risk_score = Num(0)

\* the scan trigger's state, read off the script's position and the session
ScanState ==
  IF pc = "scanning" THEN "Scanning"
  ELSE IF Results = <<>> THEN "Idle"
  ELSE IF Len(Results) = 1 /\ IsSentinel(Results[1]) THEN "Error"
  ELSE "Results"

ScanState_next ==
  IF pc' = "scanning" THEN "Scanning"
  ELSE IF GetResults(session_state') = <<>> THEN "Idle"
  ELSE IF Len(GetResults(session_state')) = 1
          /\ IsSentinel(GetResults(session_state')[1]) THEN "Error"
  ELSE "Results"

VendorSeq(s) == [i \in 1..Len(s) |-> s[i].vendor_name]
Descending(s, by) == \A i \in 1..(Len(s) - 1) : ~Before(by, s[i + 1], s[i])

\* C4: the aggregates account for every row: their total_spend sums to the
\* rows' total_amount and their txn_count to the number of rows.
C4_AggregatesConserveRows ==
  "rank" \in ran =>
    /\ SumSeq([i \in 1..Len(stats) |-> stats[i].total_spend]) = SumAmount(df.rows)
    /\ SumSeq([i \in 1..Len(stats) |-> stats[i].txn_count]) = Len(df.rows)

C6_TopKPlusOther ==
  "rank" \in ran =>
    LET all == GroupBySum(df)
        kept == {pie_data[i].vendor_name : i \in 1..(IF Len(pie_data) < TopK
                                                     THEN Len(pie_data) ELSE TopK)}
        tail == SelectSeq(all, LAMBDA e : e.vendor_name \notin kept)
    IN /\ PieTotals(pie_data) = PieTotals(all)
       /\ Len(pie_data) = IF TopK + 1 < Len(all) THEN TopK + 1 ELSE Len(all)
       /\ Len(all) > TopK
            => /\ pie_data[TopK + 1].total_amount = PieTotals(tail)
               /\ Len(tail) = Len(all) - TopK
       /\ \A i \in 1..Len(all) :
            all[i].vendor_name \in kept =>
              \A j \in 1..Len(tail) : all[i].total_amount >= tail[j].total_amount

\* six vendors were collapsed, the bucket holding two of them
C6_CollapsedTwo ==
  /\ "rank" \in ran
  /\ Len(GroupBySum(df)) = TopK + 2
  /\ Len(pie_data) = TopK + 1
  /\ pie_data[TopK + 1].total_amount >= 3
====
